---------------------------- MODULE Spec2Model ----------------------------
(***************************************************************************)
(* A model of nwnltr.c: the .ltr Markov table tool.                        *)
(*                                                                         *)
(* A C float is modelled in fixed point: the integer x stands for the      *)
(* value x / Scale, Scale = 2^24 being the resolution of a float's 24-bit  *)
(* significand just below 1.0.  Sums are exact, a division rounds to the   *)
(* nearest unit, so a CDF built from thirds does not end on exactly 1.0.   *)
(*                                                                         *)
(* A character is its ASCII code; a string is a sequence of codes.         *)
(***************************************************************************)
EXTENDS Integers, Sequences, FiniteSets, TLC

VARIABLES
    pc,        \* where the program is: a position in main or in random_name
    cfg,       \* struct cfg: build, print, nofix, generate
    file,      \* the .ltr file on disk: magic, num_letters, data
    ltr,       \* main's struct ltrfile: header and data
    buf2,      \* build_ltr's cleaned token
    namebuf,   \* random_name's static name buffer, as the characters written
    attempts,  \* random_name's dead-end counter
    fixes,     \* calls of fix_ltr made so far
    printed,   \* whether print_ltr has run
    nread      \* tokens scanf has taken from stdin

vars == <<pc, cfg, file, ltr, buf2, namebuf, attempts, fixes, printed, nread>>

-----------------------------------------------------------------------------
(* Bounds and program constants *)

\* The alphabet size the tool is compiled for (-DNUM_LETTERS=n; 28 by default).
NUM_LETTERS == 3

\* 1.0f in fixed point.
Scale == 16777216

\* The least and the greatest fixed-point value v with 0.9999 <= v <= 1.0001.
TolLo == 16775539
TolHi == 16778893

\* How many times the repair pass is applied to one table.
MaxFixes == 2

\* How many tokens stdin holds at most, and the longest raw token.
MaxTokens == 3
MaxTokLen == 6

\* The greatest NUM a run is started with (--generate=NUM).
MaxGenerate == 2

\* sizeof namebuf
NAMEBUF_SIZE == 256

\* How many symbols past the end of namebuf a word is followed.
MaxOverrun == 1

\* The dead ends one word may take: ++attempts > 100
MAX_ATTEMPTS == 100

\* rand() % 12
END_THRESHOLD == 12

Letters == 0 .. (NUM_LETTERS - 1)

Third == Scale \div 3

-----------------------------------------------------------------------------
(* Alphabet codec *)

\* letters[i] of "abcdefghijklmnopqrstuvwxyz'-"
letters(i) == IF i = 26 THEN 39 ELSE IF i = 27 THEN 45 ELSE 97 + i

idx(letter) ==
    IF letter = 39 THEN 26
    ELSE IF letter = 45 THEN 27
    ELSE IF letter >= 97 /\ letter <= 122 THEN letter - 97
    ELSE -1

tolower(c) == IF c >= 65 /\ c <= 90 THEN c + 32 ELSE c

toupper(c) == IF c >= 97 /\ c <= 122 THEN c - 32 ELSE c

-----------------------------------------------------------------------------
(* Table storage *)

ZeroArray == [i \in Letters |-> 0]

ZeroCdf == [start |-> ZeroArray, middle |-> ZeroArray, end |-> ZeroArray]

\* memset(ltr, 0, sizeof(*ltr)), seen from the data block
ZeroData ==
    [singles |-> ZeroCdf,
     doubles |-> [i \in Letters |-> ZeroCdf],
     triples |-> [i \in Letters |-> [j \in Letters |-> ZeroCdf]]]

InTolerance(v) == v >= TolLo /\ v <= TolHi

-----------------------------------------------------------------------------
(* fix_ltr *)

\* A detection that looks at the last entry alone.
IsCorruptLastOnly(arr) == ~InTolerance(arr[NUM_LETTERS - 1])

\* The detection loop: no entry of the array is 'exactly' 1.0.
IsCorrupt(arr) == \A i \in Letters : ~InTolerance(arr[i])

\* A correction loop that takes the offset after a nonzero entry, not a zero one.
RECURSIVE FixLoopNoCarry(_, _, _, _, _)
FixLoopNoCarry(arr, i, accumulator, prevval, correction) ==
    IF i >= NUM_LETTERS THEN arr
    ELSE LET uncorrected == arr[i]
             corr == IF uncorrected # 0 /\ i > 0 /\ prevval # 0
                     THEN accumulator ELSE correction
             acc == IF uncorrected # 0 THEN uncorrected + corr ELSE accumulator
             out == IF uncorrected # 0 THEN [arr EXCEPT ![i] = acc] ELSE arr
         IN  FixLoopNoCarry(out, i + 1, acc, uncorrected, corr)

\* The correction loop from index i on, with the locals it carries.
RECURSIVE FixLoop(_, _, _, _, _)
FixLoop(arr, i, accumulator, prevval, correction) ==
    IF i >= NUM_LETTERS THEN arr
    ELSE LET uncorrected == arr[i]
             corr == IF uncorrected # 0 /\ i > 0 /\ prevval = 0
                     THEN accumulator ELSE correction
             acc == IF uncorrected # 0 THEN uncorrected + corr ELSE accumulator
             out == IF uncorrected # 0 THEN [arr EXCEPT ![i] = acc] ELSE arr
         IN  FixLoop(out, i + 1, acc, uncorrected, corr)

\* A repair that does not ask whether the array is corrupt.
FixArrayAlways(arr) == FixLoop(arr, 0, 0, 0, 0)

\* if (iscorrupt & 2) { ... }, and the same for the end array
FixArray(arr) == IF IsCorrupt(arr) THEN FixLoop(arr, 0, 0, 0, 0) ELSE arr

fix_ltr(data) ==
    [data EXCEPT !.singles.middle = FixArray(@),
                 !.singles.end    = FixArray(@)]

-----------------------------------------------------------------------------
(* build_ltr *)

Magic == "LTR V1.0"

\* The characters of a raw token: 'a', 'C', '#', '1'.
RawChars == {97, 67, 35, 49}

\* What scanf("%255s") can return: a non-empty run of non-blank characters.
RawTokens == UNION {[1 .. n -> RawChars] : n \in 1 .. MaxTokLen}

\* The cleaning loop over buf from position r on, out being buf2 so far.
RECURSIVE CleanLoop(_, _, _)
CleanLoop(buf, r, out) ==
    IF r > Len(buf) THEN out
    ELSE IF buf[r] = 35 THEN out
    ELSE LET c == tolower(buf[r])
         IN  IF idx(c) = -1 THEN CleanLoop(buf, r + 1, out)
             ELSE CleanLoop(buf, r + 1, Append(out, c))

\* x += 1.0 on a counter
Inc(x) == x + Scale

AddS(data, pos, i) == [data EXCEPT !.singles[pos][i] = Inc(@)]

AddD(data, pos, i, j) == [data EXCEPT !.doubles[i][pos][j] = Inc(@)]

AddT(data, pos, i, j, k) == [data EXCEPT !.triples[i][j][pos][k] = Inc(@)]

\* idx(p[k]) for a pointer p at offset 0 of the token t, offsets from 0
At(t, k) == idx(t[k + 1])

AddAll(data, pos, t, k) ==
    AddT(AddD(AddS(data, pos, At(t, k)), pos, At(t, k), At(t, k + 1)),
         pos, At(t, k), At(t, k + 1), At(t, k + 2))

\* A middle loop that tests before it steps: while (p != q-2) { ...; p++; }
RECURSIVE MiddleLoopFromStart(_, _, _, _)
MiddleLoopFromStart(data, t, p, q) ==
    IF p = q - 2 THEN data
    ELSE MiddleLoopFromStart(AddAll(data, "middle", t, p), t, p + 1, q)

\* while (++p != q-2) { ... }
RECURSIVE MiddleLoop(_, _, _, _)
MiddleLoop(data, t, p, q) ==
    LET p1 == p + 1
    IN  IF p1 = q - 2 THEN data
        ELSE MiddleLoop(AddAll(data, "middle", t, p1), t, p1, q)

\* The counting of one accepted token t (its length is at least 3).
CountToken(data, t) ==
    LET p == 0
        q == Len(t) - 1
        s == AddAll(data, "start", t, p)
        e == AddT(AddD(AddS(s, "end", At(t, q)), "end", At(t, q - 1), At(t, q)),
                  "end", At(t, q - 2), At(t, q - 1), At(t, q))
    IN  IF q - p = 2 THEN e ELSE MiddleLoop(e, t, p, q)

\* The body of the scanf loop for the raw token buf.
ScanBody(data, buf) ==
    LET t == CleanLoop(buf, 1, <<>>)
    IN  IF Len(t) < 3 THEN data ELSE CountToken(data, t)

\* x / (float)n, rounded to the nearest unit
FDiv(x, n) == (2 * x + n) \div (2 * n)

\* startcount += (int)arr[i], over the array
RECURSIVE CountSum(_, _)
CountSum(arr, i) ==
    IF i >= NUM_LETTERS THEN 0 ELSE (arr[i] \div Scale) + CountSum(arr, i + 1)

\* The historical defect: the running sum is dropped at a zero slot.
RECURSIVE NormLoopReset(_, _, _, _)
NormLoopReset(arr, i, count, acc) ==
    IF i >= NUM_LETTERS THEN arr
    ELSE IF arr[i] > 0
         THEN LET v == FDiv(arr[i], count) + acc
              IN  NormLoopReset([arr EXCEPT ![i] = v], i + 1, count, v)
         ELSE NormLoopReset(arr, i + 1, count, 0)

\* The normalisation loop of one array from index i on, acc being s, m or e.
RECURSIVE NormLoop(_, _, _, _)
NormLoop(arr, i, count, acc) ==
    IF i >= NUM_LETTERS THEN arr
    ELSE IF arr[i] > 0
         THEN LET v == FDiv(arr[i], count) + acc
              IN  NormLoop([arr EXCEPT ![i] = v], i + 1, count, v)
         ELSE NormLoop(arr, i + 1, count, acc)

NormArray(arr) == NormLoop(arr, 0, CountSum(arr, 0), 0)

NormCdf(c) ==
    [start |-> NormArray(c.start), middle |-> NormArray(c.middle),
     end |-> NormArray(c.end)]

\* The three normalisation blocks: singles, doubles, triples.
Normalize(data) ==
    [singles |-> NormCdf(data.singles),
     doubles |-> [i \in Letters |-> NormCdf(data.doubles[i])],
     triples |-> [i \in Letters |-> [j \in Letters |-> NormCdf(data.triples[i][j])]]]

\* build_ltr as a function of the whole training input.
RECURSIVE CountTokens(_, _)
CountTokens(data, toks) ==
    IF toks = <<>> THEN data
    ELSE CountTokens(ScanBody(data, Head(toks)), Tail(toks))

BuildData(toks) == Normalize(CountTokens(ZeroData, toks))

-----------------------------------------------------------------------------
(* random_name *)

\* The entries of a CDF.
Entries(c) == {c.start[i] : i \in Letters} \cup {c.middle[i] : i \in Letters}
              \cup {c.end[i] : i \in Letters}

\* What nrand() returns, 0.0 to 1.0 (rand() = RAND_MAX), as far as the scans of
\* the table can tell: 0.0, 1.0 and the least value of every stretch between
\* two entries.
Probs(data) ==
    {v \in Entries(data.singles)
            \cup UNION {Entries(data.doubles[i]) : i \in Letters}
            \cup UNION {Entries(data.triples[i][j]) : i \in Letters, j \in Letters} :
        v <= Scale}
    \cup {0, Scale}

\* for (i = 0; i < num_letters; i++) if (prob < arr[i]) break;  gives i
RECURSIVE ScanLoop(_, _, _)
ScanLoop(arr, prob, i) ==
    IF i >= NUM_LETTERS THEN NUM_LETTERS
    ELSE IF prob < arr[i] THEN i
    ELSE ScanLoop(arr, prob, i + 1)

Scan(arr, prob) == ScanLoop(arr, prob, 0)

\* triples[idx(p[-2])][idx(p[-1])] for the word w
Context(data, w) == data.triples[idx(w[Len(w) - 1])][idx(w[Len(w)])]

Front(w) == SubSeq(w, 1, Len(w) - 1)

\* namebuf[0] = toupper(namebuf[0])
Capitalize(w) == [w EXCEPT ![1] = toupper(@)]

\* goto again: attempts = 0; p = &namebuf[0]
Again ==
    /\ pc' = "again"
    /\ namebuf' = <<>>
    /\ attempts' = 0

\* Dead-end tests that are off by one, in the length and in the count.
RestartEarly(len, att) == len - 1 < 2 \/ att + 1 > MAX_ATTEMPTS

RestartLate(len, att) == len - 1 < 3 \/ att + 1 > MAX_ATTEMPTS + 1

\* The test of a dead end: --p - namebuf < 3 || ++attempts > 100
Restart(len, att) == len - 1 < 3 \/ att + 1 > MAX_ATTEMPTS

NeedFirst ==
    /\ pc = "again"
    /\ \E prob \in Probs(ltr.data) :
          LET i == Scan(ltr.data.singles.start, prob)
          IN  IF i = NUM_LETTERS THEN Again
              ELSE /\ namebuf' = <<letters(i)>>
                   /\ attempts' = 0
                   /\ pc' = "second"
    /\ UNCHANGED <<cfg, file, ltr, buf2, fixes, printed, nread>>

NeedSecond ==
    /\ pc = "second"
    /\ \E prob \in Probs(ltr.data) :
          LET i == Scan(ltr.data.doubles[idx(namebuf[Len(namebuf)])].start, prob)
          IN  IF i = NUM_LETTERS THEN Again
              ELSE /\ namebuf' = Append(namebuf, letters(i))
                   /\ pc' = "third"
                   /\ UNCHANGED attempts
    /\ UNCHANGED <<cfg, file, ltr, buf2, fixes, printed, nread>>

NeedThird ==
    /\ pc = "third"
    /\ \E prob \in Probs(ltr.data) :
          LET i == Scan(Context(ltr.data, namebuf).start, prob)
          IN  IF i = NUM_LETTERS THEN Again
              ELSE /\ namebuf' = Append(namebuf, letters(i))
                   /\ pc' = "extending"
                   /\ UNCHANGED attempts
    /\ UNCHANGED <<cfg, file, ltr, buf2, fixes, printed, nread>>

\* A write of the word w past namebuf[255] is undefined: the process is lost
\* (a fault, or whatever the bytes after namebuf were needed for), or the write
\* lands in the bytes after namebuf and random_name goes on to `to`.
Overrun(w, to) ==
    \/ /\ pc' = "overrun"
       /\ UNCHANGED <<namebuf, attempts>>
    \/ /\ Len(namebuf) < NAMEBUF_SIZE + MaxOverrun
       /\ namebuf' = w
       /\ pc' = to
       /\ UNCHANGED attempts

\* One turn of while (1), with the draws prob = nrand() and r = rand() % 12.
\* A return writes namebuf[len] and the terminator namebuf[len + 1]; an append
\* writes namebuf[len].
Step(prob, r) ==
    LET len == Len(namebuf)
        c == Context(ltr.data, namebuf)
        e == IF r <= len THEN Scan(c.end, prob) ELSE NUM_LETTERS
        m == Scan(c.middle, prob)
    IN  IF e < NUM_LETTERS
        THEN IF len + 1 >= NAMEBUF_SIZE
             THEN Overrun(Capitalize(Append(namebuf, letters(e))), "returned")
             ELSE /\ namebuf' = Capitalize(Append(namebuf, letters(e)))
                  /\ pc' = "returned"
                  /\ UNCHANGED attempts
        ELSE IF m < NUM_LETTERS
        THEN IF len >= NAMEBUF_SIZE
             THEN Overrun(Append(namebuf, letters(m)), "extending")
             ELSE /\ namebuf' = Append(namebuf, letters(m))
                  /\ pc' = "extending"
                  /\ UNCHANGED attempts
        ELSE IF Restart(len, attempts) THEN Again
        ELSE /\ namebuf' = Front(namebuf)
             /\ attempts' = attempts + 1
             /\ pc' = "extending"

Extending ==
    /\ pc = "extending"
    /\ \E prob \in Probs(ltr.data) : \E r \in 0 .. (END_THRESHOLD - 1) : Step(prob, r)
    /\ UNCHANGED <<cfg, file, ltr, buf2, fixes, printed, nread>>

-----------------------------------------------------------------------------
(* load_ltr and main *)

\* The header as it is read from the file.
HeaderOf(f) == [magic |-> f.magic, num_letters |-> f.num_letters]

\* A header check that leaves out num_letters.
MagicAccepted(f) == f.magic = Magic

\* strncmp(magic, "LTR V1.0", 8) == 0 and num_letters == NUM_LETTERS
HeaderAccepted(f) == f.magic = Magic /\ f.num_letters = NUM_LETTERS

\* load_ltr: every die() ends the process; the data block is read last.
LoadLtr ==
    /\ pc = "main"
    /\ ~cfg.build
    /\ IF ~file.exists
       THEN pc' = "died" /\ UNCHANGED ltr
       ELSE IF ~HeaderAccepted(file)
       THEN pc' = "died" /\ ltr' = [ltr EXCEPT !.header = HeaderOf(file)]
       ELSE IF ~file.complete
       THEN /\ pc' = "died"
            /\ ltr' = [header |-> HeaderOf(file),
                       data |-> [ltr.data EXCEPT !.singles = file.data.singles]]
       ELSE /\ pc' = "fix"
            /\ ltr' = [header |-> HeaderOf(file), data |-> file.data]
    /\ UNCHANGED <<cfg, file, buf2, namebuf, attempts, fixes, printed, nread>>

\* build_ltr up to its read loop: memset and the header.
BuildBegin ==
    /\ pc = "main"
    /\ cfg.build
    /\ ltr' = [header |-> [magic |-> Magic, num_letters |-> NUM_LETTERS],
               data |-> ZeroData]
    /\ pc' = "scan"
    /\ UNCHANGED <<cfg, file, buf2, namebuf, attempts, fixes, printed, nread>>

\* One turn of while (scanf("%255s", buf) == 1) with the token buf.
ScanToken(buf) ==
    /\ pc = "scan"
    /\ nread < MaxTokens
    /\ buf2' = CleanLoop(buf, 1, <<>>)
    /\ ltr' = [ltr EXCEPT !.data = ScanBody(@, buf)]
    /\ nread' = nread + 1
    /\ UNCHANGED <<pc, cfg, file, namebuf, attempts, fixes, printed>>

\* End of input: the normalisation, then the write of the file, which dies
\* when fopen cannot create it.
BuildFinish ==
    /\ pc = "scan"
    /\ ltr' = [ltr EXCEPT !.data = Normalize(@)]
    /\ \E created \in BOOLEAN :
          IF created
          THEN /\ file' = [exists |-> TRUE, magic |-> ltr.header.magic,
                           num_letters |-> ltr.header.num_letters,
                           complete |-> TRUE, data |-> Normalize(ltr.data)]
               /\ pc' = "fix"
          ELSE /\ pc' = "died"
               /\ UNCHANGED file
    /\ UNCHANGED <<cfg, buf2, namebuf, attempts, fixes, printed, nread>>

\* if (!(cfg.nofix)) fix_ltr(&ltr);
FixStep ==
    /\ pc = "fix"
    /\ IF cfg.nofix THEN UNCHANGED <<ltr, fixes>>
       ELSE /\ ltr' = [ltr EXCEPT !.data = fix_ltr(@)]
            /\ fixes' = fixes + 1
    /\ pc' = "print"
    /\ UNCHANGED <<cfg, file, buf2, namebuf, attempts, printed, nread>>

\* if (cfg.print) print_ltr(&ltr);
PrintStep ==
    /\ pc = "print"
    /\ printed' = cfg.print
    /\ pc' = "generate"
    /\ UNCHANGED <<cfg, file, ltr, buf2, namebuf, attempts, fixes, nread>>

\* while (cfg.generate-- > 0) ... random_name(&ltr)
GenerateLoop ==
    /\ pc = "generate"
    /\ cfg' = [cfg EXCEPT !.generate = @ - 1]
    /\ IF cfg.generate > 0 THEN Again
       ELSE pc' = "exit" /\ UNCHANGED <<namebuf, attempts>>
    /\ UNCHANGED <<file, ltr, buf2, fixes, printed, nread>>

\* printf("%s\n", ...) of the name returned
PrintName ==
    /\ pc = "returned"
    /\ pc' = "generate"
    /\ UNCHANGED <<cfg, file, ltr, buf2, namebuf, attempts, fixes, printed, nread>>

\* A further call of fix_ltr on the table in memory.
Repair ==
    /\ pc = "fix"
    /\ fixes < MaxFixes
    /\ ltr' = [ltr EXCEPT !.data = fix_ltr(@)]
    /\ fixes' = fixes + 1
    /\ UNCHANGED <<pc, cfg, file, buf2, namebuf, attempts, printed, nread>>

-----------------------------------------------------------------------------
(* Inputs *)

\* Training inputs: "abc"; "abb abba abbc"; "aaaabb"; "abcba"; none.
TrainingSets ==
    { << <<97, 98, 99>> >>,
      << <<97, 98, 98>>, <<97, 98, 98, 97>>, <<97, 98, 98, 99>> >>,
      << <<97, 97, 97, 97, 98, 98>> >>,
      << <<97, 98, 99, 98, 97>> >>,
      << >> }

BuiltTables == {BuildData(ts) : ts \in TrainingSets}

\* The same without "aaaabb", whose words grow without end.
ShortTrainingSets ==
    { << <<97, 98, 99>> >>,
      << <<97, 98, 98>>, <<97, 98, 98, 97>>, <<97, 98, 98, 99>> >>,
      << <<97, 98, 99, 98, 97>> >>,
      << >> }

ShortTables == {BuildData(ts) : ts \in ShortTrainingSets}

\* Tokens of a training input: "abc", "bca", "cab", "acca", "acaca",
\* "aaccaac", "Ab1c#a" and "ac".
TokenPool ==
    { <<97, 98, 99>>, <<98, 99, 97>>, <<99, 97, 98>>, <<97, 99, 99, 97>>,
      <<97, 99, 97, 99, 97>>, <<97, 97, 99, 99, 97, 97, 99>>,
      <<65, 98, 49, 99, 35, 97>>, <<97, 99>> }

\* What the counters hold when the read loop has one token left to read.
Prefixes ==
    { << >>, << <<97, 99, 97, 99, 97>> >>,
      << <<97, 99, 99, 97>>, <<97, 97, 99, 99, 97, 97, 99>> >> }

\* What an uninitialised struct ltrfile on main's stack may hold.
StackData == {ZeroData, BuildData(<< <<97, 98, 99, 98, 97>> >>)}

StackLtr ==
    {[header |-> [magic |-> "", num_letters |-> 0], data |-> d] : d \in StackData}

BuiltHeader == [magic |-> Magic, num_letters |-> NUM_LETTERS]

NoFile ==
    [exists |-> FALSE, magic |-> "", num_letters |-> 0, complete |-> FALSE,
     data |-> <<>>]

Files ==
    {NoFile} \cup
    [exists : {TRUE}, magic : {Magic, "BAD V1.0"},
     num_letters : {NUM_LETTERS, NUM_LETTERS + 1}, complete : BOOLEAN,
     data : ShortTables]

\* The entries a singles array of a loaded file is drawn from.
FixValues == {0, Third, 2 * Third, Scale}

FixBase == BuildData(<< <<97, 98, 99, 98, 97>> >>)

FixTables ==
    {[FixBase EXCEPT !.singles.middle = m, !.singles.end = e] :
        m \in [Letters -> FixValues], e \in [Letters -> FixValues]}

-----------------------------------------------------------------------------
(* Specifications *)

\* main on an existing file: load, repair, print, generate.
Init ==
    /\ pc = "main"
    /\ cfg \in [build : {FALSE}, print : BOOLEAN, nofix : BOOLEAN,
                generate : 0 .. MaxGenerate]
    /\ file \in Files
    /\ ltr \in StackLtr
    /\ buf2 = <<>>
    /\ namebuf = <<>>
    /\ attempts = 0
    /\ fixes = 0
    /\ printed = FALSE
    /\ nread = 0

Next ==
    \/ LoadLtr
    \/ FixStep
    \/ PrintStep
    \/ GenerateLoop
    \/ NeedFirst
    \/ NeedSecond
    \/ NeedThird
    \/ Extending
    \/ PrintName

Spec == Init /\ [][Next]_vars

\* main --build: the table is built from stdin, repaired and printed.
InitBuild ==
    /\ pc = "main"
    /\ cfg \in [build : {TRUE}, print : BOOLEAN, nofix : BOOLEAN, generate : {0}]
    /\ file = NoFile
    /\ ltr \in StackLtr
    /\ buf2 = <<>>
    /\ namebuf = <<>>
    /\ attempts = 0
    /\ fixes = 0
    /\ printed = FALSE
    /\ nread = 0

NextBuild ==
    \/ BuildBegin
    \/ \E buf \in TokenPool : ScanToken(buf)
    \/ BuildFinish
    \/ FixStep
    \/ PrintStep
    \/ GenerateLoop

SpecBuild == InitBuild /\ [][NextBuild]_vars

\* build_ltr's read loop with one token left on stdin, whatever the token.
InitCount ==
    /\ pc = "scan"
    /\ cfg = [build |-> TRUE, print |-> FALSE, nofix |-> FALSE, generate |-> 0]
    /\ file = NoFile
    /\ ltr \in {[header |-> BuiltHeader, data |-> CountTokens(ZeroData, ts)] :
                  ts \in Prefixes}
    /\ buf2 = <<>>
    /\ namebuf = <<>>
    /\ attempts = 0
    /\ fixes = 0
    /\ printed = FALSE
    /\ nread = MaxTokens - 1

NextCount ==
    \/ \E buf \in RawTokens : ScanToken(buf)
    \/ BuildFinish

SpecCount == InitCount /\ [][NextCount]_vars

\* fix_ltr applied, and applied again, to the table a file holds.
InitFix ==
    /\ pc = "fix"
    /\ cfg = [build |-> FALSE, print |-> FALSE, nofix |-> FALSE, generate |-> 0]
    /\ \E d \in FixTables :
          /\ file = [exists |-> TRUE, magic |-> Magic, num_letters |-> NUM_LETTERS,
                     complete |-> TRUE, data |-> d]
          /\ ltr = [header |-> BuiltHeader, data |-> d]
    /\ buf2 = <<>>
    /\ namebuf = <<>>
    /\ attempts = 0
    /\ fixes = 0
    /\ printed = FALSE
    /\ nread = 0

NextFix == Repair

SpecFix == InitFix /\ [][NextFix]_vars

\* One call of random_name on a table built from a training input.
InitName ==
    /\ pc = "again"
    /\ cfg = [build |-> FALSE, print |-> FALSE, nofix |-> FALSE, generate |-> 0]
    /\ file = NoFile
    /\ ltr \in {[header |-> BuiltHeader, data |-> d] : d \in BuiltTables}
    /\ buf2 = <<>>
    /\ namebuf = <<>>
    /\ attempts = 0
    /\ fixes = 0
    /\ printed = FALSE
    /\ nread = 0

NextName ==
    \/ NeedFirst
    \/ NeedSecond
    \/ NeedThird
    \/ Extending

SpecName == InitName /\ [][NextName]_vars

\* One call of random_name, on a table built from at least one word, under
\* fair draws: a step that the draws make possible again and again is taken
\* in the end.
InitFair ==
    /\ pc = "again"
    /\ cfg = [build |-> FALSE, print |-> FALSE, nofix |-> FALSE, generate |-> 0]
    /\ file = NoFile
    /\ ltr \in {[header |-> BuiltHeader, data |-> d] : d \in ShortTables \ {ZeroData}}
    /\ buf2 = <<>>
    /\ namebuf = <<>>
    /\ attempts = 0
    /\ fixes = 0
    /\ printed = FALSE
    /\ nread = 0

FairDraws ==
    /\ WF_vars(NextName)
    /\ SF_vars(NeedFirst /\ pc' = "second")
    /\ SF_vars(NeedSecond /\ pc' = "third")
    /\ SF_vars(NeedThird /\ pc' = "extending")
    /\ SF_vars(Extending /\ Len(namebuf') > Len(namebuf))
    /\ SF_vars(Extending /\ pc' = "returned")

SpecFair == InitFair /\ [][NextName]_vars /\ FairDraws

-----------------------------------------------------------------------------
(* Properties of fix_ltr, under SpecFix: file.data is the table as loaded,   *)
(* ltr.data the table after `fixes` calls of fix_ltr.                       *)

ReachesOne(arr) == \E i \in Letters : arr[i] >= TolLo /\ arr[i] <= TolHi

RunProb(arr, i) ==
    IF arr[i] = 0 THEN 0
    ELSE IF i > 0 /\ arr[i - 1] # 0 THEN arr[i] - arr[i - 1]
    ELSE arr[i]

RECURSIVE SumRunProb(_, _)
SumRunProb(arr, i) ==
    IF i >= NUM_LETTERS THEN 0 ELSE RunProb(arr, i) + SumRunProb(arr, i + 1)

\* The historical corruption: the cumulative values start again after a zero
\* entry, no entry is near 1.0, and the probabilities sum to 1.
HistoricallyCorrupt(arr) ==
    /\ ~ReachesOne(arr)
    /\ \A i \in Letters : arr[i] # 0 => RunProb(arr, i) > 0
    /\ InTolerance(SumRunProb(arr, 0))

\* C4: the repair of a singles.middle array corrupted by the historical bug
\* gives an array whose nonzero entries do not decrease with the index and
\* whose last nonzero entry is within [0.9999, 1.0001]; zero entries stay zero.
C4_RepairRestoresCdf ==
    (fixes >= 1 /\ HistoricallyCorrupt(file.data.singles.middle)) =>
      LET old == file.data.singles.middle
          new == ltr.data.singles.middle
      IN  /\ \A i \in Letters : (old[i] = 0) <=> (new[i] = 0)
          /\ \A i, j \in Letters : (i < j /\ new[i] # 0 /\ new[j] # 0) => new[i] <= new[j]
          /\ \E i \in Letters : /\ new[i] # 0
                                /\ \A j \in Letters : j > i => new[j] = 0
                                /\ new[i] >= TolLo /\ new[i] <= TolHi

C4_Witness ==
    /\ fixes >= 1
    /\ HistoricallyCorrupt(file.data.singles.middle)
    /\ ltr.data.singles.middle # file.data.singles.middle
    /\ file.data.singles.middle[0] # 0

-----------------------------------------------------------------------------
(* Properties of build_ltr *)

\* An array is all zero, or its last nonzero entry is within [0.9999, 1.0001].
EndsAtOne(arr) ==
    \/ \A i \in Letters : arr[i] = 0
    \/ \E i \in Letters : /\ arr[i] # 0
                          /\ \A j \in Letters : j > i => arr[j] = 0
                          /\ arr[i] >= TolLo /\ arr[i] <= TolHi

CdfEndsAtOne(c) == EndsAtOne(c.start) /\ EndsAtOne(c.middle) /\ EndsAtOne(c.end)

\* C3: in the table build_ltr leaves in memory and writes to the file, every
\* array of every CDF (singles, doubles[i], triples[i][j]) is all zero or has
\* its last nonzero entry within [0.9999, 1.0001].  Under SpecBuild.
C3_BuiltCdfsEndAtOne ==
    (pc = "fix" /\ file.exists) =>
      /\ file.data = ltr.data
      /\ CdfEndsAtOne(ltr.data.singles)
      /\ \A i \in Letters : CdfEndsAtOne(ltr.data.doubles[i])
      /\ \A i, j \in Letters : CdfEndsAtOne(ltr.data.triples[i][j])

C3_Witness ==
    /\ pc = "fix"
    /\ file.exists
    /\ ltr.data.singles.start[0] = Third
    /\ ltr.data.singles.start[1] = 2 * Third
    /\ ltr.data.singles.start[2] = 3 * Third
    /\ \E i \in Letters : /\ ltr.data.doubles[i].middle[0] # 0
                          /\ ltr.data.doubles[i].middle[1] = 0
                          /\ ltr.data.doubles[i].middle[2] # 0

\* The letter at position k of the token t, positions from 1.
Sym(t, k) == idx(t[k])

\* The positions, from 1, at which a middle window of the token t begins:
\* 1 .. n-4 counted from 0.
MiddleWindows(t) == 2 .. (Len(t) - 3)

Hit(b) == IF b THEN 1 ELSE 0

\* What one accepted token t adds to each counter, in units of 1.0.
ExpectS(t, pos, i) ==
    CASE pos = "start"  -> Hit(Sym(t, 1) = i)
      [] pos = "end"    -> Hit(Sym(t, Len(t)) = i)
      [] pos = "middle" -> Cardinality({p \in MiddleWindows(t) : Sym(t, p) = i})

ExpectD(t, pos, i, j) ==
    CASE pos = "start"  -> Hit(Sym(t, 1) = i /\ Sym(t, 2) = j)
      [] pos = "end"    -> Hit(Sym(t, Len(t) - 1) = i /\ Sym(t, Len(t)) = j)
      [] pos = "middle" ->
           Cardinality({p \in MiddleWindows(t) : Sym(t, p) = i /\ Sym(t, p + 1) = j})

ExpectT(t, pos, i, j, k) ==
    CASE pos = "start"  -> Hit(Sym(t, 1) = i /\ Sym(t, 2) = j /\ Sym(t, 3) = k)
      [] pos = "end"    -> Hit(/\ Sym(t, Len(t) - 2) = i
                               /\ Sym(t, Len(t) - 1) = j
                               /\ Sym(t, Len(t)) = k)
      [] pos = "middle" ->
           Cardinality({p \in MiddleWindows(t) :
                          Sym(t, p) = i /\ Sym(t, p + 1) = j /\ Sym(t, p + 2) = k})

Positions == {"start", "middle", "end"}

\* C10: a turn of the read loop whose cleaned token has n >= 3 symbols adds
\* 1.0 to the start counters of its first 1/2/3 symbols, 1.0 to the end
\* counters of its last 1/2/3 symbols, and 1.0 to the middle counters once per
\* window beginning at positions 1 .. n-4, and nothing else; a token of
\* 3 symbols adds no middle count.  Under SpecCount.
C10_CountsPerToken ==
    [][(pc = "scan" /\ nread' = nread + 1 /\ Len(buf2') >= 3) =>
          /\ \A pos \in Positions : \A i \in Letters :
                ltr'.data.singles[pos][i] =
                  ltr.data.singles[pos][i] + Scale * ExpectS(buf2', pos, i)
          /\ \A pos \in Positions : \A i, j \in Letters :
                ltr'.data.doubles[i][pos][j] =
                  ltr.data.doubles[i][pos][j] + Scale * ExpectD(buf2', pos, i, j)
          /\ \A pos \in Positions : \A i, j, k \in Letters :
                ltr'.data.triples[i][j][pos][k] =
                  ltr.data.triples[i][j][pos][k] + Scale * ExpectT(buf2', pos, i, j, k)
          /\ (Len(buf2') = 3 => ltr'.data.singles.middle = ltr.data.singles.middle)
      ]_vars

C10_Witness ==
    /\ pc = "scan"
    /\ nread = MaxTokens
    /\ Len(buf2) = 6
    /\ buf2[2] = 97 /\ buf2[3] = 99
    /\ ltr.data.singles.middle[0] >= Scale
    /\ ltr.data.singles.middle[2] >= Scale
    /\ ltr.data.triples[0][2].middle[Sym(buf2, 4)] >= Scale

-----------------------------------------------------------------------------
(* Properties of random_name *)

\* C5: the word under construction never holds more than 255 symbols, the
\* capacity of the name buffer.  Under SpecName.
C5_WordFitsBuffer == Len(namebuf) <= 255

\* C6: a word returned has at least 3 symbols, and in Extending the word
\* under construction has at least 3, so the context of two symbols exists.
\* Under SpecName.
C6_AtLeastThree ==
    /\ pc = "returned" => Len(namebuf) >= 3
    /\ pc = "extending" =>
          /\ Len(namebuf) >= 3
          /\ idx(namebuf[Len(namebuf) - 1]) \in Letters
          /\ idx(namebuf[Len(namebuf)]) \in Letters

C6_Witness ==
    /\ pc = "extending"
    /\ Len(namebuf) = 3
    /\ attempts > 0

\* C7: every call of random_name returns in the end.  Under SpecFair.
C7_Returns == <>(pc = "returned")

\* A turn of Extending that neither returns nor appends: a dead end.
DeadEnd ==
    /\ pc = "extending"
    /\ pc' \in {"extending", "again"}
    /\ ~(pc' = "extending" /\ Len(namebuf') = Len(namebuf) + 1)

\* C9: a dead end restarts the word (back to the first letter, the counter at
\* 0) exactly when the word less its last symbol has fewer than 3 symbols or
\* this is more than the 100th dead end of the word; otherwise the word loses
\* exactly its last symbol, the counter goes up by one and the sampler stays
\* in Extending.  So the counter never passes 100.  Under SpecName.
C9_DeadEndRule ==
    /\ [](attempts >= 0 /\ attempts <= 100)
    /\ [][DeadEnd =>
            IF Len(namebuf) - 1 < 3 \/ attempts + 1 > 100
            THEN pc' = "again" /\ namebuf' = <<>> /\ attempts' = 0
            ELSE /\ pc' = "extending"
                 /\ namebuf' = SubSeq(namebuf, 1, Len(namebuf) - 1)
                 /\ attempts' = attempts + 1
       ]_vars

C9_Witness ==
    /\ pc = "extending"
    /\ attempts = 100
    /\ Len(namebuf) = 3

-----------------------------------------------------------------------------
(* Properties of load_ltr and main *)

\* The file is there and its header is not the one the tool accepts.
BadHeader(f) == f.exists /\ (f.magic # "LTR V1.0" \/ f.num_letters # NUM_LETTERS)

\* C8: on a file whose magic or alphabet size is wrong the run ends in die():
\* the data block of the table in memory is never written, no repair is made,
\* nothing is printed and no name is sampled.  Under Spec.
C8_BadHeaderIsFatal ==
    /\ [](BadHeader(file) =>
            /\ pc \in {"main", "died"}
            /\ fixes = 0
            /\ ~printed
            /\ namebuf = <<>>)
    /\ [][BadHeader(file) =>
            /\ pc = "main" => pc' = "died"
            /\ ltr'.data = ltr.data
       ]_vars

C8_Witness ==
    /\ pc = "died"
    /\ BadHeader(file)
    /\ file.magic = "LTR V1.0"
    /\ file.complete
    /\ ltr.data # ZeroData
    /\ cfg.print /\ ~cfg.nofix /\ cfg.generate > 0

=============================================================================
